---------------------------- MODULE Spec2Model ----------------------------
(***************************************************************************)
(* A model of the AE Toolkit application (src/app.py): the clean-number    *)
(* parser, the credit limit calculator, the Murabahah schedule loop and    *)
(* the staging / save / load / delete workflow of the profitability tab.   *)
(*                                                                         *)
(* Numbers.  The program computes with Python floats (IEEE 754 binary64,   *)
(* round to nearest, ties to even).  TLC's integers are 32 bits wide, so a *)
(* float is modelled as a record [s, m, e] of value (-1)^s * m * 2^e whose *)
(* significand m is a natural number of exactly 53 bits, held as a         *)
(* little-endian sequence of 14-bit limbs (the zero is [0, <<>>, 0]).      *)
(* Every arithmetic operator computes the exact result and rounds it as    *)
(* the hardware does.  Infinities, NaN, subnormals and the sign of zero    *)
(* are outside the model: no input of the model reaches them.  Python ints *)
(* that meet floats (2000000, 100000, 0, the month count) are modelled by  *)
(* the float of the same value, which is exact for every int used here.    *)
(***************************************************************************)
EXTENDS Integers, Sequences, FiniteSets, TLC

(***************************************************************************)
(* Arithmetic.  Natural numbers of any size are little-endian limb         *)
(* sequences with no most significant zero limb; <<>> is 0.  All of the    *)
(* arithmetic is one recursive operator, Num(op, a, b, c), so that TLC     *)
(* keeps a single copy of it; the operators after it name its cases.       *)
(*                                                                         *)
(*   "nat"     the limbs of the non-negative integer a                     *)
(*   "int"     the integer of the limbs a                                  *)
(*   "trim"    a without most significant zero limbs                       *)
(*   "add"     a + b + c, c a carry                                        *)
(*   "sub"     a - b - c for a >= b + c, c a borrow (not trimmed)          *)
(*   "cmp"     -1, 0, 1 as a < b, a = b, a > b (c = -1 to start)           *)
(*   "muls"    a * b + c for an integer 0 <= b < LimbBase (not trimmed)    *)
(*   "mul"     a * b (not trimmed)                                         *)
(*   "shl"     a * 2^b                                                     *)
(*   "shr"     floor(a / 2^b)                                              *)
(*   "bitlen"  the number of bits of a                                     *)
(*   "divbits" c more quotient bits of a division: a = the quotient so     *)
(*             far, b = <<remainder, divisor>>; <<quotient, remainder>>    *)
(*   "round"   the float nearest to (-1)^b[1] * a * 2^b[2], ties to even;  *)
(*             c says that a non-zero tail lies below the last bit of a    *)
(*   "fadd", "fmul", "fdiv", "fcmp"   float +, *, /, comparison            *)
(***************************************************************************)
LimbBits == 14
LimbBase == 2^LimbBits
Precision == 53

FZero == [s |-> 0, m |-> <<>>, e |-> 0]

RECURSIVE Num(_, _, _, _)
Num(op, a, b, c) ==
    CASE op = "nat" ->
           IF a = 0 THEN <<>>
           ELSE <<a % LimbBase>> \o Num("nat", a \div LimbBase, 0, 0)
      [] op = "int" ->
           IF a = <<>> THEN 0 ELSE Head(a) + LimbBase * Num("int", Tail(a), 0, 0)
      [] op = "trim" ->
           IF a = <<>> THEN a
           ELSE IF a[Len(a)] = 0 THEN Num("trim", SubSeq(a, 1, Len(a) - 1), 0, 0)
           ELSE a
      [] op = "add" ->
           IF a = <<>> /\ b = <<>> THEN (IF c = 0 THEN <<>> ELSE <<c>>)
           ELSE IF a = <<>> THEN Num("add", b, a, c)
           ELSE LET t == Head(a) + (IF b = <<>> THEN 0 ELSE Head(b)) + c
                IN  <<t % LimbBase>>
                    \o Num("add", Tail(a), IF b = <<>> THEN b ELSE Tail(b),
                           t \div LimbBase)
      [] op = "sub" ->
           IF a = <<>> THEN <<>>
           ELSE LET d == Head(a) - (IF b = <<>> THEN 0 ELSE Head(b)) - c
                IN  <<d % LimbBase>>
                    \o Num("sub", Tail(a), IF b = <<>> THEN b ELSE Tail(b),
                           IF d < 0 THEN 1 ELSE 0)
      [] op = "cmp" ->
           IF c = -1
           THEN IF Len(a) # Len(b) THEN (IF Len(a) < Len(b) THEN -1 ELSE 1)
                ELSE Num("cmp", a, b, Len(a))
           ELSE IF c = 0 THEN 0
           ELSE IF a[c] # b[c] THEN (IF a[c] < b[c] THEN -1 ELSE 1)
           ELSE Num("cmp", a, b, c - 1)
      [] op = "muls" ->
           IF a = <<>> THEN (IF c = 0 THEN <<>> ELSE <<c>>)
           ELSE LET p == Head(a) * b + c
                IN  <<p % LimbBase>> \o Num("muls", Tail(a), b, p \div LimbBase)
      [] op = "mul" ->
           IF a = <<>> THEN <<>>
           ELSE Num("add", Num("muls", b, Head(a), 0),
                    <<0>> \o Num("mul", Tail(a), b, 0), 0)
      [] op = "shl" ->
           IF a = <<>> THEN <<>>
           ELSE [i \in 1..(b \div LimbBits) |-> 0]
                \o Num("muls", a, 2^(b % LimbBits), 0)
      [] op = "shr" ->
           LET d == SubSeq(a, (b \div LimbBits) + 1, Len(a))
               r == b % LimbBits
           IN  Num("trim",
                   [i \in 1..Len(d) |->
                      (d[i] \div 2^r)
                      + (IF i < Len(d) THEN (d[i + 1] % 2^r) * 2^(LimbBits - r)
                         ELSE 0)], 0, 0)
      [] op = "bitlen" ->
           IF a = <<>> THEN 0
           ELSE (Len(a) - 1) * LimbBits
                + (CHOOSE k \in 1..LimbBits :
                      a[Len(a)] < 2^k /\ 2^(k - 1) <= a[Len(a)])
      [] op = "divbits" ->
           IF c = 0 THEN <<a, b[1]>>
           ELSE LET r2  == Num("add", b[1], b[1], 0)
                    bit == IF Num("cmp", r2, b[2], -1) >= 0 THEN 1 ELSE 0
                    q2  == Num("add", a, a, bit)
                    r3  == IF bit = 1 THEN Num("trim", Num("sub", r2, b[2], 0), 0, 0)
                           ELSE r2
                IN  \* q2 and r3 are evaluated before the next bit is taken
                    IF Len(q2) >= 0 /\ Len(r3) >= 0
                    THEN Num("divbits", q2, <<r3, b[2]>>, c - 1)
                    ELSE <<q2, r3>>
      [] op = "round" ->
           IF a = <<>> THEN FZero
           ELSE LET L == Num("bitlen", a, 0, 0)
                IN  IF L <= Precision
                    THEN [s |-> b[1], m |-> Num("shl", a, Precision - L, 0),
                          e |-> b[2] - (Precision - L)]
                    ELSE LET q  == Num("shr", a, L - Precision, 0)
                             r  == Num("trim",
                                       Num("sub", a, Num("shl", q, L - Precision, 0), 0),
                                       0, 0)
                             h  == Num("cmp", r,
                                       Num("shl", <<1>>, L - Precision - 1, 0), -1)
                             m1 == IF h > 0 \/ (h = 0 /\ (c \/ q[1] % 2 = 1))
                                   THEN Num("add", q, <<>>, 1) ELSE q
                         IN  IF Num("bitlen", m1, 0, 0) > Precision
                             THEN [s |-> b[1], m |-> Num("shr", m1, 1, 0),
                                   e |-> b[2] + (L - Precision) + 1]
                             ELSE [s |-> b[1], m |-> m1, e |-> b[2] + (L - Precision)]
      [] op = "fmul" ->
           IF a.m = <<>> \/ b.m = <<>> THEN FZero
           ELSE Num("round", Num("trim", Num("mul", a.m, b.m, 0), 0, 0),
                    <<(a.s + b.s) % 2, a.e + b.e>>, FALSE)
      [] op = "fadd" ->
           IF a.m = <<>> THEN b
           ELSE IF b.m = <<>> THEN a
           ELSE LET e  == IF a.e < b.e THEN a.e ELSE b.e
                    na == Num("shl", a.m, a.e - e, 0)
                    nb == Num("shl", b.m, b.e - e, 0)
                    h  == Num("cmp", na, nb, -1)
                IN  IF a.s = b.s
                    THEN Num("round", Num("add", na, nb, 0), <<a.s, e>>, FALSE)
                    ELSE IF h = 0 THEN FZero
                    ELSE IF h > 0
                    THEN Num("round", Num("trim", Num("sub", na, nb, 0), 0, 0),
                             <<a.s, e>>, FALSE)
                    ELSE Num("round", Num("trim", Num("sub", nb, na, 0), 0, 0),
                             <<b.s, e>>, FALSE)
      [] op = "fdiv" ->
           IF a.m = <<>> THEN FZero
           ELSE LET ge == Num("cmp", a.m, b.m, -1) >= 0
                    qr == Num("divbits",
                              IF ge THEN <<1>> ELSE <<>>,
                              << IF ge THEN Num("trim", Num("sub", a.m, b.m, 0), 0, 0)
                                 ELSE a.m,
                                 b.m >>,
                              Precision + 3)
                IN  Num("round", qr[1],
                        <<(a.s + b.s) % 2, a.e - b.e - (Precision + 3)>>,
                        qr[2] # <<>>)
      [] op = "fcmp" ->
           IF a.m = <<>> /\ b.m = <<>> THEN 0
           ELSE IF a.m = <<>> THEN (IF b.s = 1 THEN 1 ELSE -1)
           ELSE IF b.m = <<>> THEN (IF a.s = 1 THEN -1 ELSE 1)
           ELSE IF a.s # b.s THEN (IF a.s = 1 THEN -1 ELSE 1)
           ELSE LET h == IF a.e # b.e THEN (IF a.e < b.e THEN -1 ELSE 1)
                         ELSE Num("cmp", a.m, b.m, -1)
                IN  IF a.s = 1 THEN -h ELSE h

(***************************************************************************)
(* Python float: [s |-> 0 or 1, m |-> 53-bit significand, e |-> exponent]. *)
(***************************************************************************)
\* float(n) for a Python int n, |n| < 2^31
FInt(n) ==
    IF n < 0 THEN Num("round", Num("nat", -n, 0, 0), <<1, 0>>, FALSE)
    ELSE Num("round", Num("nat", n, 0, 0), <<0, 0>>, FALSE)

FNeg(a) == IF a.m = <<>> THEN a ELSE [a EXCEPT !.s = 1 - a.s]
FAbs(a) == [a EXCEPT !.s = 0]

FMul(a, b) == Num("fmul", a, b, 0)
FAdd(a, b) == Num("fadd", a, b, 0)
FSub(a, b) == Num("fadd", a, FNeg(b), 0)
\* a / b for b # 0 (Python raises ZeroDivisionError on b = 0)
FDiv(a, b) == Num("fdiv", a, b, 0)

FLt(a, b) == Num("fcmp", a, b, 0) < 0
FLe(a, b) == Num("fcmp", a, b, 0) <= 0
FGt(a, b) == Num("fcmp", a, b, 0) > 0
FGe(a, b) == Num("fcmp", a, b, 0) >= 0

\* max(a, b) and min(a, b) as Python computes them: b only if it is beyond a
FMax(a, b) == IF FGt(b, a) THEN b ELSE a
FMin(a, b) == IF FLt(b, a) THEN b ELSE a

(***************************************************************************)
(* Float constants of the source, each the float nearest to its decimal    *)
(* literal (the correctly rounded quotient of two exact integers).         *)
(***************************************************************************)
F0      == FZero
F1      == FInt(1)
F100    == FInt(100)
F0_05   == FDiv(FInt(5), FInt(100))
F0_15   == FDiv(FInt(15), FInt(100))
F0_3    == FDiv(FInt(3), FInt(10))
F0_65   == FDiv(FInt(65), FInt(100))
F0_90   == FDiv(FInt(90), FInt(100))
F0_95   == FDiv(FInt(95), FInt(100))
F1_05   == FDiv(FInt(105), FInt(100))
F1_10   == FDiv(FInt(110), FInt(100))

(***************************************************************************)
(* Text.  A Python str is a sequence of one-character strings.  The model  *)
(* reads float(text) over the characters of Chars: decimal digits, ".",    *)
(* "-", and characters float() rejects.  Exponents, underscores and the    *)
(* words inf / nan, which float() also accepts, are not in the alphabet.   *)
(***************************************************************************)
Digits == <<"0", "1", "2", "3", "4", "5", "6", "7", "8", "9">>
IsDigit(c) == \E i \in 1..10 : Digits[i] = c
DigitVal(c) == (CHOOSE i \in 1..10 : Digits[i] = c) - 1

\* str.replace(ch, '')
RECURSIVE Remove(_, _)
Remove(t, ch) ==
    IF t = <<>> THEN <<>>
    ELSE IF Head(t) = ch THEN Remove(Tail(t), ch)
    ELSE <<Head(t)>> \o Remove(Tail(t), ch)

\* str.strip() for the one whitespace character of the alphabet
RECURSIVE LStrip(_)
LStrip(t) == IF t # <<>> /\ Head(t) = " " THEN LStrip(Tail(t)) ELSE t
RECURSIVE RStrip(_)
RStrip(t) ==
    IF t # <<>> /\ t[Len(t)] = " " THEN RStrip(SubSeq(t, 1, Len(t) - 1)) ELSE t
Strip(t) == LStrip(RStrip(t))

AllDigits(t) == \A i \in 1..Len(t) : IsDigit(t[i])

\* The natural number a digit string writes, after the digits of acc
RECURSIVE NFromDigits(_, _)
NFromDigits(t, acc) ==
    IF t = <<>> THEN Num("trim", acc, 0, 0)
    ELSE NFromDigits(Tail(t), Num("muls", acc, 10, DigitVal(Head(t))))

\* 10^k
RECURSIVE Pow10(_)
Pow10(k) == IF k = 0 THEN <<1>> ELSE Num("muls", Pow10(k - 1), 10, 0)

\* float(t) of a stripped text: [ok |-> FALSE] is ValueError.  u is the text
\* after its sign, ip and fp are its digits before and after the point.
PyFloatOf(neg, ip, fp) ==
    IF ~AllDigits(ip) \/ ~AllDigits(fp) \/ Len(ip) + Len(fp) = 0
    THEN [ok |-> FALSE]
    ELSE IF fp = <<>>
    THEN [ok |-> TRUE,
          v  |-> Num("round", NFromDigits(ip, <<>>), <<IF neg THEN 1 ELSE 0, 0>>, FALSE)]
    ELSE [ok |-> TRUE,
          v  |-> Num("fdiv",
                     Num("round", NFromDigits(ip \o fp, <<>>),
                         <<IF neg THEN 1 ELSE 0, 0>>, FALSE),
                     Num("round", Pow10(Len(fp)), <<0, 0>>, FALSE), 0)]

PyFloatSplit(neg, u, dots) ==
    IF Cardinality(dots) > 1 THEN [ok |-> FALSE]
    ELSE IF dots = {} THEN PyFloatOf(neg, u, <<>>)
    ELSE PyFloatOf(neg, SubSeq(u, 1, (CHOOSE i \in dots : TRUE) - 1),
                        SubSeq(u, (CHOOSE i \in dots : TRUE) + 1, Len(u)))

PyFloatUnsigned(neg, u) == PyFloatSplit(neg, u, {i \in 1..Len(u) : u[i] = "."})

PyFloat(t) ==
    IF t # <<>> /\ Head(t) = "-" THEN PyFloatUnsigned(TRUE, Tail(t))
    ELSE PyFloatUnsigned(FALSE, t)

(***************************************************************************)
(* clean_number(num_str, is_percentage).  The argument is None, a number   *)
(* (what st.number_input returns) or a text (what st.text_input returns).  *)
(***************************************************************************)
PyNone   == [t |-> "none"]
PyNum(v) == [t |-> "num", v |-> v]
PyStr(x) == [t |-> "str", v |-> x]

\* lines 56-59: float(cleaned), the percentage division, ValueError
CleanParsed(f, is_percentage) ==
    IF ~f.ok THEN F0
    ELSE IF is_percentage THEN FDiv(f.v, F100) ELSE f.v

\* lines 55-59
CleanText(cleaned, is_percentage) ==
    IF cleaned = <<>> THEN F0 ELSE CleanParsed(PyFloat(cleaned), is_percentage)

clean_number(num_str, is_percentage) ==
    IF num_str.t = "none" THEN F0
    ELSE IF num_str.t = "num"
    THEN IF is_percentage /\ FGe(FAbs(num_str.v), F1) THEN FDiv(num_str.v, F100)
         ELSE num_str.v
    ELSE CleanText(Strip(Remove(Remove(num_str.v, ","), "%")), is_percentage)

\* int(x) for a float x: truncation toward zero
PyInt(f) ==
    IF f.m = <<>> THEN 0
    ELSE LET mag == IF f.e >= 0 THEN Num("shl", f.m, f.e, 0)
                    ELSE Num("shr", f.m, -f.e, 0)
         IN  IF f.s = 1 THEN -Num("int", mag, 0, 0) ELSE Num("int", mag, 0, 0)

\* The whole number the format "{:.0f}" writes of x: nearest, ties to even
FRoundInt(f) ==
    IF f.m = <<>> THEN 0
    ELSE IF f.e >= 0 THEN (1 - 2 * f.s) * Num("int", Num("shl", f.m, f.e, 0), 0, 0)
    ELSE LET q  == Num("shr", f.m, -f.e, 0)
             h  == Num("cmp",
                       Num("trim", Num("sub", f.m, Num("shl", q, -f.e, 0), 0), 0, 0),
                       Num("shl", <<1>>, -f.e - 1, 0), -1)
             up == h > 0 \/ (h = 0 /\ q # <<>> /\ q[1] % 2 = 1)
         IN  (1 - 2 * f.s) * (Num("int", q, 0, 0) + (IF up THEN 1 ELSE 0))

\* format_currency(amount): the whole number of SAR the text shows
format_currency(amount) == FRoundInt(amount)

(***************************************************************************)
(* credit_limit_calculator.  A submission holds what the widgets return:   *)
(* texts for the st.text_input fields, numbers for st.number_input, the    *)
(* chosen options for st.selectbox and st.radio.                           *)
(***************************************************************************)
IndustryNone == "None"

max_initial_base_limit == 2000000
min_final_limit == 100000
max_final_limit == 2000000

IsBlank(t) == Strip(t) = <<>>

\* Data cleaning, lines 158-166
CleanedInputs(app) ==
    [ requested_limit       |-> clean_number(PyStr(app.requested_limit_str), FALSE),
      revenue               |-> clean_number(PyStr(app.revenue_str), FALSE),
      net_profit_percentage |-> clean_number(PyStr(app.net_profit_percentage_str), TRUE),
      current_assets        |-> clean_number(PyStr(app.current_assets_str), FALSE),
      current_liabilities   |-> clean_number(PyStr(app.current_liabilities_str), FALSE),
      exposure_outstanding  |-> clean_number(PyStr(app.exposure_outstanding_str), FALSE),
      unbilled_revenue      |-> IF app.industry_type = "Contractor"
                                THEN clean_number(PyStr(app.unbilled_revenue_str), FALSE)
                                ELSE F0,
      years_of_operation    |-> clean_number(PyNum(app.years_of_operation), FALSE),
      number_of_projects    |-> PyInt(clean_number(PyNum(FInt(app.number_of_projects)), FALSE)) ]

ErrIf(cond, msg) == IF cond THEN <<msg>> ELSE <<>>

\* Validation, lines 169-186: the list `errors`
ValidationErrors(app, v) ==
       ErrIf(FLe(v.requested_limit, F0), "Requested Limit > 0.")
    \o ErrIf(FLe(v.revenue, F0), "Revenue > 0.")
    \o ErrIf(FLt(v.exposure_outstanding, F0), "Exposure >= 0.")
    \o ErrIf(app.industry_type = IndustryNone, "Industry Type required.")
    \o (IF app.industry_type = "Contractor"
        THEN IF IsBlank(app.unbilled_revenue_str) THEN <<"Unbilled Revenue required.">>
             ELSE ErrIf(FLe(v.unbilled_revenue, F0), "Unbilled Revenue > 0.")
        ELSE <<>>)
    \o ErrIf(FLe(v.years_of_operation, F0), "Years Op > 0.")
    \o ErrIf(v.number_of_projects < 1, "Projects >= 1.")
    \o (IF IsBlank(app.net_profit_percentage_str) THEN <<"Net Profit % required.">>
        ELSE ErrIf(FLe(v.net_profit_percentage, F0), "Net Profit % must be > 0."))
    \o ErrIf(IsBlank(app.current_assets_str), "Current Assets required.")
    \o ErrIf(IsBlank(app.current_liabilities_str), "Current Liabilities required.")
    \o ErrIf(FLe(v.current_assets, F0), "Current Assets > 0.")
    \o ErrIf(FLe(v.current_liabilities, F0), "Current Liabilities > 0.")

\* line 181
ActualNetProfit(v) ==
    IF FGt(v.revenue, F0) THEN FMul(v.revenue, v.net_profit_percentage) ELSE F0

\* lines 182, 187
ActualCurrentRatio(v) ==
    IF FGt(v.current_liabilities, F0) /\ FGt(v.current_assets, F0)
    THEN FDiv(v.current_assets, v.current_liabilities)
    ELSE PyNone

\* A variant of the eligibility test that lets a current ratio of exactly 1 pass
EligibilityReasonsFromOne(actual_net_profit, actual_current_ratio) ==
       ErrIf(FLe(actual_net_profit, F0), "Net profit > 0% required.")
    \o (IF actual_current_ratio = PyNone
        THEN <<"Valid Current Assets/Liabilities needed.">>
        ELSE ErrIf(FLt(actual_current_ratio, F1), "Current ratio > 1 required."))

\* Eligibility, lines 191-196: the list `eligibility_reasons` (the message of
\* line 196 without the ratio it quotes)
EligibilityReasons(actual_net_profit, actual_current_ratio) ==
       ErrIf(FLe(actual_net_profit, F0), "Net profit > 0% required.")
    \o (IF actual_current_ratio = PyNone
        THEN <<"Valid Current Assets/Liabilities needed.">>
        ELSE ErrIf(FLe(actual_current_ratio, F1), "Current ratio > 1 required."))

\* line 203
BaseLimitUnadjusted(app, v) ==
    IF app.industry_type = "Contractor" THEN FMul(v.unbilled_revenue, F0_15)
    ELSE FMul(v.revenue, F0_05)

\* The nine adjustments in the order of lines 222-231
NumAdjustments == 9
AdjFactor == <<F0_65, F0_90, F0_90, F0_90, F0_90, F0_95, F1_05, F1_05, F1_10>>
AdjReason ==
    << "Exposure > 30% Revenue", "Non-Saudi company", "Company < 3 years old",
       "Customer concentration > 40%", "Payment delays > 30 days",
       "Number of Projects < 3", "Current Ratio > 2", "Years in Business > 10",
       "Previous Timely Payments" >>

AdjTriggered(i, app, v, ratio) ==
    CASE i = 1 -> FGt(v.exposure_outstanding, FMul(v.revenue, F0_3))
      [] i = 2 -> app.is_saudi = "No"
      [] i = 3 -> FLt(v.years_of_operation, FInt(3))
      [] i = 4 -> app.has_concentration = "Yes"
      [] i = 5 -> app.has_previous_payments = "Yes" /\ app.has_payment_delays = "Yes"
      [] i = 6 -> v.number_of_projects < 3
      [] i = 7 -> FGt(ratio, FInt(2))
      [] i = 8 -> FGt(v.years_of_operation, FInt(10))
      [] i = 9 -> app.has_previous_payments = "Yes" /\ app.has_payment_delays = "No"

\* apply_adjustment, lines 210-218: the new limit and the detail it records
\* (the detail is a text; the model keeps the numbers the text shows, and
\* leaves out the value_info suffix of the Current Ratio reason)
AdjustmentDetail(reason, change_percent, current_limit, new_limit) ==
    [ new_limit |-> new_limit,
      detail    |-> [ reason         |-> reason,
                      change_percent |-> FRoundInt(change_percent),
                      before         |-> format_currency(current_limit),
                      after          |-> format_currency(new_limit) ] ]

\* A variant that multiplies by the change, factor - 1, instead of the factor
apply_adjustment_by_change(current_limit, factor, reason) ==
    AdjustmentDetail(reason, FMul(FSub(factor, F1), F100),
                     current_limit, FMul(current_limit, FSub(factor, F1)))

\* A variant that cuts each new limit down to whole SAR
apply_adjustment_truncated(current_limit, factor, reason) ==
    AdjustmentDetail(reason, FMul(FSub(factor, F1), F100),
                     current_limit, FInt(PyInt(FMul(current_limit, factor))))

apply_adjustment(current_limit, factor, reason) ==
    AdjustmentDetail(reason, FMul(FSub(factor, F1), F100),
                     current_limit, FMul(current_limit, factor))

\* A variant of the final thresholds without the ceiling
FinalThresholdFloorOnly(credit_limit, cap_applied) ==
    IF FLt(credit_limit, FInt(min_final_limit))
    THEN [final_limit |-> FInt(min_final_limit), note |-> "Floor Applied"]
    ELSE [final_limit |-> credit_limit, note |-> ""]

\* The final thresholds, lines 235-238: final_limit and "Min/Max Applied"
FinalThreshold(credit_limit, cap_applied) ==
    IF FLt(credit_limit, FInt(min_final_limit))
    THEN [final_limit |-> FInt(min_final_limit), note |-> "Floor Applied"]
    ELSE IF FGt(credit_limit, FInt(max_final_limit))
            /\ ~(cap_applied /\ max_final_limit = max_initial_base_limit)
    THEN [final_limit |-> FInt(max_final_limit), note |-> "Ceiling Applied"]
    ELSE [final_limit |-> credit_limit, note |-> ""]

VARIABLES
    cn_arg,         \* clean_number: the argument and the percentage flag
    cn_out,         \* clean_number: the value returned, once it has returned
    cl_app,         \* credit limit form: what the widgets hold at submission
    cl,             \* credit limit handler: its position and its local variables
    mur,            \* Murabahah tab: the widgets, the position, the local variables
    user,           \* st.session_state['user']
    session,        \* st.session_state['session']
    unsaved_deals,  \* st.session_state.unsaved_deals, the staging list
    deals,          \* the rows of the record store's table 'deals'
    clock,          \* the time datetime.now() reads, in stagings so far
    next_id,        \* the id the record store gives to its next row
    last_op,        \* the last handler that ran and what it was answered
    chain           \* an adjustment chain applied in an arbitrary order

parseVars == <<cn_arg, cn_out>>
clVars    == <<cl_app, cl>>
dealVars  == <<user, session, unsaved_deals, deals, clock, next_id, last_op>>
vars == <<cn_arg, cn_out, cl_app, cl, mur, user, session, unsaved_deals, deals,
          clock, next_id, last_op, chain>>

(***************************************************************************)
(* The parser on its own.                                                  *)
(***************************************************************************)
MaxLen == 3
Chars == {"5", "0", ".", ",", "%", " ", "x"}
TextsUpTo(n) == UNION {[1..k -> Chars] : k \in 0..n}
ExampleTexts ==
    { <<"1", ",", "5", "0", "0", ",", "0", "0", "0">>,
      <<"-", "5">>, <<"2", ".", "5", "%">>, <<" ", "1", "2", " ">> }
ExampleNumbers == {FInt(5), FInt(1), FDiv(FInt(5), FInt(10)), FInt(0), FInt(-5)}
ParserInputs ==
    {PyNone} \cup {PyNum(v) : v \in ExampleNumbers}
             \cup {PyStr(x) : x \in TextsUpTo(MaxLen) \cup ExampleTexts}

NotCalled == [done |-> FALSE]
Returned(v) == [done |-> TRUE, v |-> v]

ParserIdle ==
    /\ cn_arg = [num_str |-> PyNone, is_percentage |-> FALSE]
    /\ cn_out = NotCalled

CleanNumber ==
    /\ ~cn_out.done
    /\ cn_out' = Returned(clean_number(cn_arg.num_str, cn_arg.is_percentage))
    /\ UNCHANGED <<cn_arg, clVars, mur, dealVars, chain>>

(***************************************************************************)
(* The credit limit handler, lines 155-239, one action per phase.          *)
(***************************************************************************)
CLForm ==
    [ pc |-> "form", v |-> PyNone, errors |-> <<>>,
      actual_net_profit |-> PyNone, actual_current_ratio |-> PyNone,
      eligibility_reasons |-> <<>>,
      base_limit_unadjusted |-> PyNone, credit_limit |-> PyNone,
      cap_applied |-> FALSE, base_limit_after_cap |-> PyNone,
      adjustments |-> <<>>, next_adj |-> 0,
      adjusted_limit |-> PyNone, final_limit |-> PyNone, min_max_applied |-> "" ]

NoApp == [industry_type |-> IndustryNone]

CLIdle == cl_app = NoApp /\ cl = CLForm

\* A variant of the validation that goes on after reporting the errors
CL_ValidatedNoReturn(v, errors) ==
    cl' = [cl EXCEPT !.v = v,
                     !.errors = errors,
                     !.actual_net_profit = ActualNetProfit(v),
                     !.actual_current_ratio = ActualCurrentRatio(v),
                     !.pc = "validated"]

\* lines 158-188: cleaning and validation; `return` on any error
CL_Validated(v, errors) ==
    cl' = [cl EXCEPT !.v = v,
                     !.errors = errors,
                     !.actual_net_profit = ActualNetProfit(v),
                     !.actual_current_ratio = ActualCurrentRatio(v),
                     !.pc = IF errors # <<>> THEN "input_error" ELSE "validated"]

CL_Cleaned(v) == CL_Validated(v, ValidationErrors(cl_app, v))

CL_Validate ==
    /\ cl.pc = "form"
    /\ CL_Cleaned(CleanedInputs(cl_app))
    /\ UNCHANGED <<parseVars, cl_app, mur, dealVars, chain>>

\* lines 191-197: eligibility; `return` when not eligible
CL_Checked(reasons) ==
    cl' = [cl EXCEPT !.eligibility_reasons = reasons,
                     !.pc = IF reasons # <<>> THEN "not_eligible" ELSE "eligible"]

CL_Eligibility ==
    /\ cl.pc = "validated"
    /\ CL_Checked(EligibilityReasons(cl.actual_net_profit, cl.actual_current_ratio))
    /\ UNCHANGED <<parseVars, cl_app, mur, dealVars, chain>>

\* lines 202-207: the base limit and its cap
CL_Based(base) ==
    cl' = [cl EXCEPT !.base_limit_unadjusted = base,
                     !.credit_limit = FMin(base, FInt(max_initial_base_limit)),
                     !.cap_applied = FGt(base, FInt(max_initial_base_limit)),
                     !.base_limit_after_cap = FMin(base, FInt(max_initial_base_limit)),
                     !.next_adj = 1,
                     !.pc = "adjusting"]

CL_Base ==
    /\ cl.pc = "eligible"
    /\ CL_Based(BaseLimitUnadjusted(cl_app, cl.v))
    /\ UNCHANGED <<parseVars, cl_app, mur, dealVars, chain>>

\* lines 222-231: the next `if` of the adjustment sequence
CL_Adjusted(a) ==
    cl' = [cl EXCEPT !.credit_limit = a.new_limit,
                     !.adjustments = Append(@, a.detail),
                     !.next_adj = @ + 1]

CL_Adjust ==
    /\ cl.pc = "adjusting"
    /\ cl.next_adj <= NumAdjustments
    /\ IF AdjTriggered(cl.next_adj, cl_app, cl.v, cl.actual_current_ratio)
       THEN CL_Adjusted(apply_adjustment(cl.credit_limit, AdjFactor[cl.next_adj],
                                         AdjReason[cl.next_adj]))
       ELSE cl' = [cl EXCEPT !.next_adj = @ + 1]
    /\ UNCHANGED <<parseVars, cl_app, mur, dealVars, chain>>

\* lines 234-239: the final thresholds
CL_Clamped(t) ==
    cl' = [cl EXCEPT !.adjusted_limit = cl.credit_limit,
                     !.final_limit = t.final_limit,
                     !.min_max_applied = t.note,
                     !.pc = "done"]

CL_Clamp ==
    /\ cl.pc = "adjusting"
    /\ cl.next_adj > NumAdjustments
    /\ CL_Clamped(FinalThreshold(cl.credit_limit, cl.cap_applied))
    /\ UNCHANGED <<parseVars, cl_app, mur, dealVars, chain>>

(***************************************************************************)
(* murabahah_calculator, lines 427-472.  mur holds the widget values, the  *)
(* local variables of the function and the rows appended to `schedule`.    *)
(***************************************************************************)
MurIdle ==
    [ pc |-> "idle" ]

\* lines 431-439: the widgets are read and the displayed variables set to 0
MurForm(deal_size, profit_rate, financing_period, admin_fee_perc) ==
    [ pc |-> "inputs",
      deal_size |-> deal_size, profit_rate |-> profit_rate,
      financing_period |-> financing_period, admin_fee_perc |-> admin_fee_perc,
      total_profit |-> F0, total_admin_fee |-> F0, total_earnings |-> F0,
      first_month_payment |-> F0, subsequent_monthly_payment |-> F0,
      admin_fee_amount |-> F0, monthly_profit_rate_dec |-> F0,
      total_profit_amount |-> F0, base_repayment_per_month |-> F0,
      schedule |-> <<>>, remaining_principal |-> F0, month |-> 0 ]

\* A variant of the totals in which the first payment carries no admin fee
MurTotalsFeeLeftOut(admin_fee_amount, monthly_profit_rate_dec, total_profit_amount, base_repayment_per_month) ==
    mur' = [mur EXCEPT
              !.admin_fee_amount = admin_fee_amount,
              !.monthly_profit_rate_dec = monthly_profit_rate_dec,
              !.total_profit_amount = total_profit_amount,
              !.total_earnings = FAdd(total_profit_amount, admin_fee_amount),
              !.total_admin_fee = admin_fee_amount,
              !.base_repayment_per_month = base_repayment_per_month,
              !.first_month_payment = base_repayment_per_month,
              !.subsequent_monthly_payment = base_repayment_per_month,
              !.schedule = <<>>,
              !.remaining_principal = mur.deal_size,
              !.month = 1,
              !.pc = "loop"]

\* lines 446-451, given the amounts of lines 443-445 and 448
MurTotals(admin_fee_amount, monthly_profit_rate_dec, total_profit_amount, base_repayment_per_month) ==
    mur' = [mur EXCEPT
              !.admin_fee_amount = admin_fee_amount,
              !.monthly_profit_rate_dec = monthly_profit_rate_dec,
              !.total_profit_amount = total_profit_amount,
              !.total_earnings = FAdd(total_profit_amount, admin_fee_amount),
              !.total_admin_fee = admin_fee_amount,
              !.base_repayment_per_month = base_repayment_per_month,
              !.first_month_payment = FAdd(base_repayment_per_month, admin_fee_amount),
              !.subsequent_monthly_payment = base_repayment_per_month,
              !.schedule = <<>>,
              !.remaining_principal = mur.deal_size,
              !.month = 1,
              !.pc = "loop"]

\* line 448, given line 445
MurBase(admin_fee_amount, monthly_profit_rate_dec, total_profit_amount) ==
    MurTotals(admin_fee_amount, monthly_profit_rate_dec, total_profit_amount,
              FDiv(FAdd(mur.deal_size, total_profit_amount),
                   FInt(mur.financing_period)))

\* line 445, given line 444
MurProfit(monthly_profit_rate_dec) ==
    MurBase(FMul(mur.deal_size, FDiv(mur.admin_fee_perc, F100)),
            monthly_profit_rate_dec,
            FMul(FMul(mur.deal_size, monthly_profit_rate_dec),
                 FInt(mur.financing_period)))

\* lines 441-451: the amounts computed before the loop
Mur_Start ==
    /\ mur.pc = "inputs"
    /\ IF FGt(mur.deal_size, F0) /\ mur.financing_period > 0
       THEN MurProfit(FDiv(mur.profit_rate, F100))
       ELSE mur' = [mur EXCEPT !.pc = "shown"]
    /\ UNCHANGED <<parseVars, clVars, dealVars, chain>>

\* lines 458-459: the balance is reduced and the row appended
MurAppend(installment, principal_paid, profit_for_month, admin_fee_paid, remaining_principal) ==
    mur' = [mur EXCEPT
              !.remaining_principal = remaining_principal,
              !.schedule = Append(@, [ Month |-> mur.month,
                                       Installment |-> installment,
                                       Principal |-> principal_paid,
                                       Profit |-> profit_for_month,
                                       AdminFeePaid |-> admin_fee_paid,
                                       Remaining |-> FMax(F0, remaining_principal) ]),
              !.month = @ + 1]

MurPaid(installment, principal_paid, profit_for_month, admin_fee_paid) ==
    MurAppend(installment, principal_paid, profit_for_month, admin_fee_paid,
              FSub(mur.remaining_principal, principal_paid))

\* A variant of the row in which the last month is a month like the others
MurRowNoLast(installment, profit_for_month, admin_fee_paid) ==
    MurPaid(installment,
            FMax(F0, FSub(FSub(installment, profit_for_month), admin_fee_paid)),
            profit_for_month, admin_fee_paid)

\* lines 456-457: the principal of the month; the last month pays the balance
MurRow(installment, profit_for_month, admin_fee_paid) ==
    MurPaid(installment,
            IF mur.month = mur.financing_period THEN mur.remaining_principal
            ELSE FMax(F0, FSub(FSub(installment, profit_for_month), admin_fee_paid)),
            profit_for_month, admin_fee_paid)

\* lines 452-459: one pass of the loop over the months
Mur_Month ==
    /\ mur.pc = "loop"
    /\ mur.month <= mur.financing_period
    /\ MurRow(IF mur.month = 1 THEN mur.first_month_payment
              ELSE mur.subsequent_monthly_payment,
              FMul(mur.remaining_principal, mur.monthly_profit_rate_dec),
              IF mur.month = 1 THEN mur.admin_fee_amount ELSE F0)
    /\ UNCHANGED <<parseVars, clVars, dealVars, chain>>

\* lines 460-472: the loop is over, the summary and the schedule are shown
Mur_Show ==
    /\ mur.pc = "loop"
    /\ mur.month > mur.financing_period
    /\ mur' = [mur EXCEPT !.pc = "shown"]
    /\ UNCHANGED <<parseVars, clVars, dealVars, chain>>

(***************************************************************************)
(* The profitability tab and the session, lines 62-119, 310-407, 476-494.  *)
(* The record store (Supabase) is outside the program: the model holds its *)
(* table as the set `deals` and lets every request be answered in each of  *)
(* the ways the program distinguishes.                                     *)
(***************************************************************************)
Users == {"u1", "u2"}

\* response.user.dict() and response.session.dict(), lines 74-75
UserDict(u)    == [id |-> u]
SessionDict(u) == [access_token |-> <<"token", u>>]

\* line 480: a user and a session are present
LoggedIn == user # PyNone /\ session # PyNone

\* The handler that ran last; tick changes at every handler
Op(name, info) == [tick |-> 1 - last_op.tick, op |-> name, info |-> info]

\* show_login_form, lines 68-78: empty fields, a refused or failed sign-in
Login_Fail ==
    /\ ~LoggedIn
    /\ last_op' = Op("login", [ok |-> FALSE])
    /\ UNCHANGED <<user, session, unsaved_deals, deals, clock, next_id>>
    /\ UNCHANGED <<parseVars, clVars, mur, chain>>

\* show_login_form, lines 72-76: the sign-in returns a user and a session
Login_OK ==
    /\ ~LoggedIn
    /\ \E u \in Users :
          /\ user' = UserDict(u)
          /\ session' = SessionDict(u)
          /\ last_op' = Op("login", [ok |-> TRUE, user_id |-> u])
    /\ UNCHANGED <<unsaved_deals, deals, clock, next_id>>
    /\ UNCHANGED <<parseVars, clVars, mur, chain>>

\* lines 490-494: sign_out() raises, nothing is cleared
Logout_Fail ==
    /\ LoggedIn
    /\ last_op' = Op("logout", [ok |-> FALSE])
    /\ UNCHANGED <<user, session, unsaved_deals, deals, clock, next_id>>
    /\ UNCHANGED <<parseVars, clVars, mur, chain>>

\* A variant of the logout that leaves the staging list in the session state
Logout_KeepsStaging ==
    /\ LoggedIn
    /\ user' = PyNone
    /\ session' = PyNone
    /\ last_op' = Op("logout", [ok |-> TRUE])
    /\ UNCHANGED <<unsaved_deals, deals, clock, next_id>>
    /\ UNCHANGED <<parseVars, clVars, mur, chain>>

\* lines 490-493 and, on the rerun, 476-478: every key of the session state
\* is popped and the three keys are initialised again
Logout_OK ==
    /\ LoggedIn
    /\ user' = PyNone
    /\ session' = PyNone
    /\ unsaved_deals' = <<>>
    /\ last_op' = Op("logout", [ok |-> TRUE])
    /\ UNCHANGED <<deals, clock, next_id>>
    /\ UNCHANGED <<parseVars, clVars, mur, chain>>

\* lines 324-325: the derived fields of a deal and the dict `new_deal`
NewDealOf(client_name, deal_size, monthly_rate, admin_fee_perc, months, monthly_profit, admin_fee_amount) ==
    [ client_name |-> client_name, deal_size |-> deal_size,
      monthly_rate |-> monthly_rate, admin_fee |-> admin_fee_perc,
      months |-> months, monthly_profit |-> monthly_profit,
      total_profit |-> FMul(monthly_profit, FInt(months)),
      admin_fee_amount |-> admin_fee_amount,
      gross_profit |-> FAdd(FMul(monthly_profit, FInt(months)), admin_fee_amount) ]

\* A variant that takes the rate and the fee as fractions, not as percents
new_deal_of_fractions(client_name, deal_size, monthly_rate, admin_fee_perc, months) ==
    NewDealOf(client_name, deal_size, monthly_rate, admin_fee_perc, months,
              FMul(deal_size, monthly_rate), FMul(deal_size, admin_fee_perc))

new_deal(client_name, deal_size, monthly_rate, admin_fee_perc, months) ==
    NewDealOf(client_name, deal_size, monthly_rate, admin_fee_perc, months,
              FMul(deal_size, FDiv(monthly_rate, F100)),
              FMul(deal_size, FDiv(admin_fee_perc, F100)))

\* line 324: temp_id, the time of staging and the client name
TempId(now, client_name) == <<now, client_name>>

\* What the add-deal form can hold (lines 317-319): the client name is any
\* text, the size is at least 0.01, the rate at least 0.1, the months an int
\* of at least 1
ClientNames == {"", "Acme", "Zed"}
StageForms ==
    { new_deal(c, FInt(sz), FInt(3), FDiv(FInt(15), FInt(10)), mo) :
        c \in ClientNames, sz \in {200000}, mo \in {4} }

MaxStagings == 2

\* lines 321-327: "Add to Unsaved Deals"
Stage ==
    /\ LoggedIn
    /\ clock < MaxStagings
    /\ \E f \in StageForms :
          IF f.client_name = "" \/ FLe(f.deal_size, F0)
          THEN /\ last_op' = Op("stage", [ok |-> FALSE, form |-> f])
               /\ UNCHANGED <<unsaved_deals, clock>>
          ELSE /\ unsaved_deals' =
                     Append(unsaved_deals,
                            [temp_id |-> TempId(clock, f.client_name)] @@ f)
               /\ clock' = clock + 1
               /\ last_op' = Op("stage", [ok |-> TRUE, form |-> f])
    /\ UNCHANGED <<user, session, deals, next_id>>
    /\ UNCHANGED <<parseVars, clVars, mur, chain>>

\* A variant of the filter that compares the client name of the temp_id alone
RECURSIVE WithoutClientNames(_, _)
WithoutClientNames(list, temp_ids_to_remove) ==
    IF list = <<>> THEN <<>>
    ELSE IF Head(list).temp_id[2] \in {t[2] : t \in temp_ids_to_remove}
    THEN WithoutClientNames(Tail(list), temp_ids_to_remove)
    ELSE <<Head(list)>> \o WithoutClientNames(Tail(list), temp_ids_to_remove)

\* line 346: the staged deals whose temp_id is not among those to remove
RECURSIVE WithoutTempIds(_, _)
WithoutTempIds(list, temp_ids_to_remove) ==
    IF list = <<>> THEN <<>>
    ELSE IF Head(list).temp_id \in temp_ids_to_remove
    THEN WithoutTempIds(Tail(list), temp_ids_to_remove)
    ELSE <<Head(list)>> \o WithoutTempIds(Tail(list), temp_ids_to_remove)

\* lines 342-348: "Remove Selected Staged Deals"
Unstage ==
    /\ LoggedIn
    /\ unsaved_deals # <<>>
    /\ \E selected \in SUBSET (1..Len(unsaved_deals)) :
          IF selected = {}
          THEN /\ last_op' = Op("unstage", [selected |-> {}, removed |-> {}])
               /\ UNCHANGED unsaved_deals
          ELSE /\ unsaved_deals' =
                     WithoutTempIds(unsaved_deals,
                                    {unsaved_deals[i].temp_id : i \in selected})
               /\ last_op' = Op("unstage",
                                [selected |-> selected,
                                 removed |-> {unsaved_deals[i].temp_id : i \in selected}])
    /\ UNCHANGED <<user, session, deals, clock, next_id>>
    /\ UNCHANGED <<parseVars, clVars, mur, chain>>

\* line 87: the dict `db_deal` sent to the store (the temp_id is not sent)
db_deal(deal, user_id) ==
    [ client_name |-> deal.client_name, deal_size |-> deal.deal_size,
      monthly_rate |-> deal.monthly_rate, admin_fee |-> deal.admin_fee,
      months |-> deal.months, monthly_profit |-> deal.monthly_profit,
      total_profit |-> deal.total_profit,
      admin_fee_amount |-> deal.admin_fee_amount,
      gross_profit |-> deal.gross_profit, user_id |-> user_id ]

\* The user id None
NoId == "None"

\* line 88: the test a deal must pass not to be skipped
IsValidDeal(d) ==
    /\ d.client_name # ""
    /\ FGt(d.deal_size, F0)
    /\ d.months > 0
    /\ d.user_id # NoId

\* lines 85-90: the list `prepared_deals`
RECURSIVE PreparedDeals(_, _)
PreparedDeals(user_id, deals_list) ==
    IF deals_list = <<>> THEN <<>>
    ELSE IF IsValidDeal(db_deal(Head(deals_list), user_id))
    THEN <<db_deal(Head(deals_list), user_id)>> \o PreparedDeals(user_id, Tail(deals_list))
    ELSE PreparedDeals(user_id, Tail(deals_list))

\* The rows the store returns for the first k rows of an insert: each row
\* as it was sent, with the id the store gave it
InsertedRows(prepared, k, first_id) ==
    [i \in 1..k |-> [id |-> first_id + i - 1] @@ prepared[i]]

\* line 95: the answers to insert(prepared_deals).execute() that lines 96-100
\* tell apart: an error, an exception, and the rows of the k rows stored
InsertResponses(prepared, first_id) ==
    { [kind |-> "error", data |-> <<>>], [kind |-> "exception", data |-> <<>>] }
    \cup { [kind |-> "data", data |-> InsertedRows(prepared, k, first_id)] :
             k \in 0..Len(prepared) }

\* A variant of the result that accepts any answer with rows
SaveResultAnyRows(response, prepared_deals) ==
    response.kind = "data" /\ response.data # <<>>

\* lines 96-100: what save_deal_bundle_to_db returns for an answer
SaveResult(response, prepared_deals) ==
    IF response.kind = "exception" THEN FALSE
    ELSE IF response.kind = "error" THEN FALSE
    ELSE IF response.data = <<>> THEN FALSE
    ELSE IF Len(response.data) # Len(prepared_deals) THEN FALSE
    ELSE TRUE

\* A variant that clears the staging list whatever the save returned
StagedAfterSaveCleared(success, staged) == <<>>

\* line 365: the staging list after the save returned `success`
StagedAfterSave(success, staged) == IF success THEN <<>> ELSE staged

MaxRecords == 3

SaveAnswered(prepared_deals, response) ==
    /\ deals' = deals \cup {response.data[i] : i \in 1..Len(response.data)}
    /\ next_id' = next_id + Len(response.data)
    /\ unsaved_deals' = StagedAfterSave(SaveResult(response, prepared_deals), unsaved_deals)
    /\ last_op' = Op("save", [user_id |-> user.id, staged |-> unsaved_deals,
                              submitted |-> prepared_deals, response |-> response,
                              success |-> SaveResult(response, prepared_deals)])

\* lines 358-367 with save_deal_bundle_to_db, lines 81-100: "Save All Staged
\* Deals to Database".  The button is drawn only while deals are staged.
SavePrepared(prepared_deals) ==
    IF prepared_deals = <<>>
    THEN /\ last_op' = Op("save", [user_id |-> user.id, staged |-> unsaved_deals,
                                   submitted |-> <<>>,
                                   response |-> [kind |-> "none", data |-> <<>>],
                                   success |-> FALSE])
         /\ UNCHANGED <<unsaved_deals, deals, next_id>>
    ELSE \E response \in InsertResponses(prepared_deals, next_id) :
            SaveAnswered(prepared_deals, response)

Save ==
    /\ LoggedIn
    /\ unsaved_deals # <<>>
    /\ next_id + Len(unsaved_deals) - 1 <= MaxRecords
    /\ SavePrepared(PreparedDeals(user.id, unsaved_deals))
    /\ UNCHANGED <<user, session, clock>>
    /\ UNCHANGED <<parseVars, clVars, mur, chain>>

\* line 107: select('*').eq('user_id', user_id), the ids of the rows found
RowsOf(table, user_id) == {r.id : r \in {x \in table : x.user_id = user_id}}

\* order('created_at', desc=True): the newest row, of the greatest id, first
RECURSIVE NewestFirst(_)
NewestFirst(ids) ==
    IF ids = {} THEN <<>>
    ELSE <<CHOOSE i \in ids : \A j \in ids : j <= i>>
         \o NewestFirst(ids \ {CHOOSE i \in ids : \A j \in ids : j <= i})

\* load_deals_from_db, lines 102-110: [] on an error or an exception
LoadResponses(table, user_id) ==
    { [kind |-> "error", data |-> <<>>], [kind |-> "exception", data |-> <<>>],
      [kind |-> "data", data |-> NewestFirst(RowsOf(table, user_id))] }

\* line 372: the section "Saved Deals" is drawn
Load ==
    /\ LoggedIn
    /\ \E response \in LoadResponses(deals, user.id) :
          last_op' = Op("load", [user_id |-> user.id, response |-> response])
    /\ UNCHANGED <<user, session, unsaved_deals, deals, clock, next_id>>
    /\ UNCHANGED <<parseVars, clVars, mur, chain>>

\* A variant of the delete that matches the user id alone
StoreDeleteByUser(table, deal_id, user_id) ==
    {r \in table : r.user_id # user_id}

\* line 116: delete().match({'id': deal_id, 'user_id': user_id})
StoreDelete(table, deal_id, user_id) ==
    {r \in table : ~(r.id = deal_id /\ r.user_id = user_id)}

\* A variant of the deletes that stops at the first one that fails
RECURSIVE DeleteEachUntilFailure(_, _, _, _)
DeleteEachUntilFailure(table, ids, results, user_id) ==
    IF ids = <<>> THEN table
    ELSE IF Head(results)
    THEN DeleteEachUntilFailure(StoreDelete(table, Head(ids), user_id),
                                Tail(ids), Tail(results), user_id)
    ELSE table

\* line 404: one delete_deal_from_db call for each selected id, in order;
\* results[i] is what the i-th call returned (False: an error, an exception)
RECURSIVE DeleteEach(_, _, _, _)
DeleteEach(table, ids, results, user_id) ==
    IF ids = <<>> THEN table
    ELSE DeleteEach(IF Head(results) THEN StoreDelete(table, Head(ids), user_id)
                    ELSE table,
                    Tail(ids), Tail(results), user_id)

Count(results) == Cardinality({i \in 1..Len(results) : results[i]})

\* lines 399-407: "Delete Selected Saved" over the rows the page loaded
DeleteSelected(ids) ==
    \E results \in [1..Len(ids) -> BOOLEAN] :
       /\ deals' = DeleteEach(deals, ids, results, user.id)
       /\ last_op' = Op("delete", [user_id |-> user.id, ids |-> ids,
                                   results |-> results,
                                   deleted_count |-> Count(results),
                                   total_to_delete |-> Len(ids)])

Delete ==
    /\ LoggedIn
    /\ \E selected \in SUBSET RowsOf(deals, user.id) :
          IF selected = {}
          THEN /\ last_op' = Op("delete", [user_id |-> user.id, ids |-> <<>>,
                                           results |-> <<>>, deleted_count |-> 0,
                                           total_to_delete |-> 0])
               /\ UNCHANGED deals
          ELSE DeleteSelected(NewestFirst(selected))
    /\ UNCHANGED <<user, session, unsaved_deals, clock, next_id>>
    /\ UNCHANGED <<parseVars, clVars, mur, chain>>

(***************************************************************************)
(* The adjustments of lines 222-231 applied by apply_adjustment in any     *)
(* order, beside the order of the code.                                    *)
(***************************************************************************)
ChainIdle == [pc |-> "idle"]

ChainStart(base, triggered) ==
    [ pc |-> "run", base |-> base, triggered |-> triggered, todo |-> triggered,
      order |-> <<>>, credit_limit |-> base ]

\* credit_limit after lines 222-231 for the adjustments of `triggered`
RECURSIVE CodedOrderLimit(_, _, _)
CodedOrderLimit(credit_limit, i, triggered) ==
    IF i > NumAdjustments THEN credit_limit
    ELSE IF i \in triggered
    THEN CodedOrderLimit(
             apply_adjustment(credit_limit, AdjFactor[i], AdjReason[i]).new_limit,
             i + 1, triggered)
    ELSE CodedOrderLimit(credit_limit, i + 1, triggered)

Chain_Apply ==
    /\ chain.pc = "run"
    /\ \E i \in chain.todo :
          chain' = [chain EXCEPT
                      !.todo = @ \ {i},
                      !.order = Append(@, i),
                      !.credit_limit =
                          apply_adjustment(@, AdjFactor[i], AdjReason[i]).new_limit]
    /\ UNCHANGED <<parseVars, clVars, mur, dealVars>>

(***************************************************************************)
(* Submissions of the credit limit form.                                   *)
(***************************************************************************)
T_Empty   == <<>>
T_Zero    == <<"0">>
T_Minus5  == <<"-", "5">>
T_Junk    == <<"x">>
T_5       == <<"5">>
T_500K    == <<"5", "0", "0", ",", "0", "0", "0">>
T_1M      == <<"1", ",", "0", "0", "0", ",", "0", "0", "0">>
T_1_5M    == <<"1", ",", "5", "0", "0", ",", "0", "0", "0">>
T_2_2M    == <<"2", ",", "2", "0", "0", ",", "0", "0", "0">>
T_3M      == <<"3", ",", "0", "0", "0", ",", "0", "0", "0">>
T_4M      == <<"4", ",", "0", "0", "0", ",", "0", "0", "0">>
T_10M     == <<"1", "0", ",", "0", "0", "0", ",", "0", "0", "0">>
T_20M     == <<"2", "0", ",", "0", "0", "0", ",", "0", "0", "0">>
T_40M     == <<"4", "0", "0", "0", "0", "0", "0", "0">>
T_50M     == <<"5", "0", ",", "0", "0", "0", ",", "0", "0", "0">>

YesNo == {"Yes", "No"}

\* A submission that passes validation and eligibility and triggers nothing
BaseApp ==
    [ requested_limit_str       |-> T_1_5M,
      revenue_str               |-> T_10M,
      net_profit_percentage_str |-> T_5,
      current_assets_str        |-> T_3M,
      current_liabilities_str   |-> T_1_5M,
      exposure_outstanding_str  |-> T_Zero,
      industry_type             |-> "Trading",
      unbilled_revenue_str      |-> T_Empty,
      is_saudi                  |-> "Yes",
      years_of_operation        |-> FInt(5),
      has_concentration         |-> "No",
      number_of_projects        |-> 3,
      has_previous_payments     |-> "No",
      has_payment_delays        |-> "No" ]

\* Valid, eligible submissions of a revenue of 10,000,000 over every
\* combination of the nine triggers
AppsAdjusted ==
    { [BaseApp EXCEPT !.exposure_outstanding_str = ex,
                      !.is_saudi = sa,
                      !.years_of_operation = FInt(yr),
                      !.has_concentration = co,
                      !.number_of_projects = np,
                      !.has_previous_payments = pd[1],
                      !.has_payment_delays = pd[2],
                      !.current_assets_str = ca] :
        ex \in {T_Zero, T_20M},
        sa \in YesNo, yr \in {1, 5, 15}, co \in YesNo, np \in {1, 3},
        pd \in {<<"No", "No">>, <<"Yes", "Yes">>, <<"Yes", "No">>},
        ca \in {T_3M, T_4M} }

\* Revenues whose base is near the floor, at the cap and above the cap
AppsThresholds ==
    { [BaseApp EXCEPT !.revenue_str = rev,
                      !.exposure_outstanding_str = ex,
                      !.years_of_operation = FInt(yr),
                      !.has_previous_payments = pd[1],
                      !.has_payment_delays = pd[2],
                      !.current_assets_str = ca] :
        rev \in {T_2_2M, T_40M, T_50M}, ex \in {T_Zero, T_20M}, yr \in {1, 5, 15},
        pd \in {<<"No", "No">>, <<"Yes", "Yes">>, <<"Yes", "No">>},
        ca \in {T_3M, T_4M} }

\* Contractors: the base is 15% of the unbilled revenue
AppsContractor ==
    { [BaseApp EXCEPT !.industry_type = "Contractor",
                      !.unbilled_revenue_str = ub,
                      !.current_assets_str = ca,
                      !.has_previous_payments = pp,
                      !.has_payment_delays = dl] :
        ub \in {T_Empty, T_Zero, T_500K, T_10M, T_20M}, ca \in {T_3M, T_4M},
        pp \in YesNo, dl \in YesNo }

\* Submissions that break validation rules, alone and together
AppsInvalid ==
    { [BaseApp EXCEPT !.requested_limit_str = rq,
                      !.revenue_str = rev,
                      !.exposure_outstanding_str = ex,
                      !.industry_type = ind,
                      !.net_profit_percentage_str = npp,
                      !.current_assets_str = ca,
                      !.current_liabilities_str = li] :
        rq \in {T_1_5M, T_Zero}, rev \in {T_10M, T_Junk},
        ex \in {T_Zero, T_Minus5}, ind \in {"Manufacturing", IndustryNone},
        npp \in {T_5, T_Empty, T_Zero}, ca \in {T_3M, T_Empty, T_Zero},
        li \in {T_1_5M, T_Empty, T_Minus5} }

\* Valid submissions around the eligibility threshold of the current ratio
AppsEligibility ==
    { [BaseApp EXCEPT !.current_assets_str = ca,
                      !.current_liabilities_str = li,
                      !.net_profit_percentage_str = npp] :
        ca \in {T_1M, T_1_5M, T_3M, T_4M}, li \in {T_1M, T_1_5M, T_3M},
        npp \in {T_5, <<"0", ".", "5">>} }

Applications ==
    AppsAdjusted \cup AppsThresholds \cup AppsContractor \cup AppsInvalid
    \cup AppsEligibility

(***************************************************************************)
(* Murabahah plans: what the widgets of lines 431-435 can hold.  The rate  *)
(* and fee sliders move in tenths of a percent, the period in months.      *)
(***************************************************************************)
MinPeriod == 1
MaxPeriod == 12
RateTenths == {10, 25, 33, 50}
FeeTenths == {0, 15, 50}
MurDealSizes == {FInt(100000), FInt(250000), FDiv(FInt(1234567), F100)}

MurPlans ==
    { MurForm(d, FDiv(FInt(r), FInt(10)), n, FDiv(FInt(f), FInt(10))) :
        d \in MurDealSizes, r \in RateTenths, n \in MinPeriod..MaxPeriod,
        f \in FeeTenths }

(***************************************************************************)
(* Adjustment chains: capped bases the calculator reaches (5% of a revenue *)
(* of 50,000,000, capped, and of 1,234,567) and the sets of adjustments    *)
(* that can trigger together, up to MaxTriggered of them.                  *)
(***************************************************************************)
MaxTriggered == 3
ChainBases ==
    { FMin(FMul(FInt(r), F0_05), FInt(max_initial_base_limit)) :
        r \in {50000000, 1234567} }
TriggerSets ==
    { T \in SUBSET (1..NumAdjustments) :
        /\ Cardinality(T) <= MaxTriggered
        /\ ~(3 \in T /\ 8 \in T)
        /\ ~(5 \in T /\ 9 \in T) }

(***************************************************************************)
(* Specifications.                                                         *)
(***************************************************************************)
\* The record store as an earlier session left it: empty, or holding a row
\* of the user u2
EarlierRows ==
    InsertedRows(<<db_deal(new_deal("Old", FInt(50000), FInt(3), FInt(1), 2), "u2")>>, 1, 1)

DealsIdle ==
    /\ user = PyNone
    /\ session = PyNone
    /\ unsaved_deals = <<>>
    /\ clock = 0
    /\ last_op = [tick |-> 0, op |-> "start", info |-> [ok |-> TRUE]]

StoreEmpty == deals = {} /\ next_id = 1

InitParse ==
    /\ cn_arg \in {[num_str |-> x, is_percentage |-> p] :
                      x \in ParserInputs, p \in BOOLEAN}
    /\ cn_out = NotCalled
    /\ CLIdle
    /\ mur = MurIdle
    /\ DealsIdle /\ StoreEmpty
    /\ chain = ChainIdle

NextParse == CleanNumber
SpecParse == InitParse /\ [][NextParse]_vars

InitCL ==
    /\ ParserIdle
    /\ cl_app \in Applications
    /\ cl = CLForm
    /\ mur = MurIdle
    /\ DealsIdle /\ StoreEmpty
    /\ chain = ChainIdle

NextCL ==
    \/ CL_Validate
    \/ CL_Eligibility
    \/ CL_Base
    \/ CL_Adjust
    \/ CL_Clamp
SpecCL == InitCL /\ [][NextCL]_vars

InitMur ==
    /\ ParserIdle
    /\ CLIdle
    /\ mur \in MurPlans
    /\ DealsIdle /\ StoreEmpty
    /\ chain = ChainIdle

NextMur ==
    \/ Mur_Start
    \/ Mur_Month
    \/ Mur_Show
SpecMur == InitMur /\ [][NextMur]_vars

InitDeals ==
    /\ ParserIdle
    /\ CLIdle
    /\ mur = MurIdle
    /\ DealsIdle
    /\ \E k \in 0..1 :
          /\ deals = {EarlierRows[i] : i \in 1..k}
          /\ next_id = k + 1
    /\ chain = ChainIdle

NextDeals ==
    \/ Login_Fail
    \/ Login_OK
    \/ Logout_Fail
    \/ Logout_OK
    \/ Stage
    \/ Unstage
    \/ Save
    \/ Load
    \/ Delete
SpecDeals == InitDeals /\ [][NextDeals]_vars

InitChain ==
    /\ ParserIdle
    /\ CLIdle
    /\ mur = MurIdle
    /\ DealsIdle /\ StoreEmpty
    /\ chain \in {ChainStart(b, T) : b \in ChainBases, T \in TriggerSets}

NextChain == Chain_Apply
SpecChain == InitChain /\ [][NextChain]_vars

C5_Hundredths == <<65, 90, 90, 90, 90, 95, 105, 105, 110>>

C5_Multipliers == [i \in 1..9 |-> FDiv(FInt(C5_Hundredths[i]), FInt(100))]

\* limit * the multipliers of the steps of T numbered i and above, in order
RECURSIVE C5_Product(_, _, _)
C5_Product(limit, i, T) ==
    IF i > 9 THEN limit
    ELSE IF i \in T
    THEN C5_Product(FMul(limit, C5_Multipliers[i]), i + 1, T)
    ELSE C5_Product(limit, i + 1, T)

\* The place in the order a..i of a recorded step
C5_StepIndex(d) == CHOOSE i \in 1..9 : AdjReason[i] = d.reason

\* The adjustments whose condition holds for the submission
C5_Triggered == {i \in 1..9 : AdjTriggered(i, cl_app, cl.v, cl.actual_current_ratio)}

\* The example of the specification: revenue 10,000,000, Trading, no
\* negative trigger, current ratio > 2, more than 10 years, timely payments
C5_Example ==
    /\ cl_app.revenue_str = T_10M
    /\ cl_app.industry_type = "Trading"
    /\ C5_Triggered = {7, 8, 9}

\* C5: the recorded steps follow the order a..i, each step starts from the
\* value the previous one left (the first from the capped base), the steps
\* recorded are the triggered ones, and the limit after the adjustments is
\* the capped base multiplied in turn by the triggered multipliers; the
\* example gives a final limit of 606,375.
C5_AdjustmentsInOrder ==
    cl.pc \in {"adjusting", "done"} =>
        /\ \A k \in 1..(Len(cl.adjustments) - 1) :
              C5_StepIndex(cl.adjustments[k]) < C5_StepIndex(cl.adjustments[k + 1])
        /\ \A k \in 1..Len(cl.adjustments) :
              cl.adjustments[k].before =
                 IF k = 1 THEN format_currency(cl.base_limit_after_cap)
                 ELSE cl.adjustments[k - 1].after
        /\ cl.pc = "done" =>
              /\ {C5_StepIndex(cl.adjustments[k]) : k \in 1..Len(cl.adjustments)}
                    = C5_Triggered
              /\ cl.adjusted_limit
                    = C5_Product(FMin(cl.base_limit_unadjusted, FInt(2000000)),
                                 1, C5_Triggered)
              /\ C5_Example =>
                    /\ cl.base_limit_after_cap = FInt(500000)
                    /\ cl.final_limit = FInt(606375)

\* The example has run to its end
C5_Witness ==
    /\ cl.pc = "done"
    /\ C5_Example
    /\ Len(cl.adjustments) = 3
    /\ cl.adjustments[3].after = 606375

\* Some message of msgs is among the reported errors
C7_Reported(msgs) == \E k \in 1..Len(cl.errors) : cl.errors[k] \in msgs

\* C7: once a submission is validated, each rule is reported exactly when
\* the input violates it, all in the one list of errors, and when the list
\* is not empty the handler has stopped: no eligibility check, no base
\* limit, no adjustment and no final limit.
C7_AllViolationsReported ==
    cl.pc # "form" =>
        /\ FLe(cl.v.requested_limit, F0) <=> C7_Reported({"Requested Limit > 0."})
        /\ FLe(cl.v.revenue, F0) <=> C7_Reported({"Revenue > 0."})
        /\ FLt(cl.v.exposure_outstanding, F0) <=> C7_Reported({"Exposure >= 0."})
        /\ cl_app.industry_type = "None" <=> C7_Reported({"Industry Type required."})
        /\ (/\ cl_app.industry_type = "Contractor"
            /\ (IsBlank(cl_app.unbilled_revenue_str) \/ FLe(cl.v.unbilled_revenue, F0)))
              <=> C7_Reported({"Unbilled Revenue required.", "Unbilled Revenue > 0."})
        /\ FLe(cl.v.years_of_operation, F0) <=> C7_Reported({"Years Op > 0."})
        /\ cl.v.number_of_projects < 1 <=> C7_Reported({"Projects >= 1."})
        /\ (IsBlank(cl_app.net_profit_percentage_str)
            \/ FLe(cl.v.net_profit_percentage, F0))
              <=> C7_Reported({"Net Profit % required.", "Net Profit % must be > 0."})
        /\ (IsBlank(cl_app.current_assets_str) \/ FLe(cl.v.current_assets, F0))
              <=> C7_Reported({"Current Assets required.", "Current Assets > 0."})
        /\ (IsBlank(cl_app.current_liabilities_str) \/ FLe(cl.v.current_liabilities, F0))
              <=> C7_Reported({"Current Liabilities required.",
                               "Current Liabilities > 0."})
        /\ cl.errors # <<>> =>
              /\ cl.pc = "input_error"
              /\ cl.eligibility_reasons = <<>>
              /\ cl.base_limit_unadjusted = PyNone
              /\ cl.adjustments = <<>>
              /\ cl.final_limit = PyNone
        /\ cl.errors = <<>> => cl.pc # "input_error"

\* A submission that breaks four rules or more, all of them reported
C7_Witness ==
    /\ cl.pc = "input_error"
    /\ Len(cl.errors) >= 4
    /\ C7_Reported({"Requested Limit > 0."})
    /\ C7_Reported({"Current Liabilities > 0."})

\* C8: a validated application goes on to a numeric result exactly when
\* revenue * net profit % > 0 and current assets / current liabilities > 1;
\* otherwise every failed condition is listed and no base limit, adjustment
\* or final limit is computed.
C8_EligibilityDecides ==
    /\ cl.pc \in {"not_eligible", "eligible"} =>
          LET profit_ok == FGt(FMul(cl.v.revenue, cl.v.net_profit_percentage), F0)
              ratio_ok  == FGt(FDiv(cl.v.current_assets, cl.v.current_liabilities), F1)
          IN  /\ cl.pc = "eligible" <=> (profit_ok /\ ratio_ok)
              /\ cl.pc = "not_eligible" =>
                    /\ ~profit_ok <=> \E k \in 1..Len(cl.eligibility_reasons) :
                          cl.eligibility_reasons[k] = "Net profit > 0% required."
                    /\ ~ratio_ok <=> \E k \in 1..Len(cl.eligibility_reasons) :
                          cl.eligibility_reasons[k] = "Current ratio > 1 required."
    /\ cl.pc = "not_eligible" =>
          /\ cl.base_limit_unadjusted = PyNone
          /\ cl.adjustments = <<>>
          /\ cl.final_limit = PyNone
    /\ cl.pc \in {"adjusting", "done"} =>
          /\ cl.eligibility_reasons = <<>>
          /\ cl.base_limit_unadjusted # PyNone
    /\ cl.pc = "done" => cl.final_limit # PyNone
    /\ cl.pc \in {"form", "input_error", "validated"} =>
          cl.eligibility_reasons = <<>> /\ cl.final_limit = PyNone

\* A valid application whose current ratio is exactly 1 is refused
C8_Witness ==
    /\ cl.pc = "not_eligible"
    /\ cl.v.current_assets = cl.v.current_liabilities
    /\ cl.eligibility_reasons = <<"Current ratio > 1 required.">>

(***************************************************************************)
(* Properties of the clean-number parser.                                  *)
(***************************************************************************)
\* C9: with the percentage flag the text "5" gives 0.05 and the text "0.5"
\* gives 0.5; an empty text or None gives 0.0; a text that is no number
\* gives 0.0; "1,500,000" gives 1500000.0.
C9_ParserExamples ==
    cn_out.done =>
        /\ (cn_arg.num_str = PyStr(<<"5">>) /\ cn_arg.is_percentage)
              => cn_out.v = FDiv(FInt(5), FInt(100))
        /\ (cn_arg.num_str = PyStr(<<"0", ".", "5">>) /\ cn_arg.is_percentage)
              => cn_out.v = FDiv(FInt(5), FInt(10))
        /\ cn_arg.num_str \in {PyNone, PyStr(<<>>)} => cn_out.v = F0
        /\ cn_arg.num_str = PyStr(<<"x">>) => cn_out.v = F0
        /\ (cn_arg.num_str = PyStr(T_1_5M) /\ ~cn_arg.is_percentage)
              => cn_out.v = FInt(1500000)

(***************************************************************************)
(* Properties of the Murabahah schedule.  Sums of floats are taken exactly *)
(* as integers of units of 2^-ScaleBits, with a sign.                      *)
(***************************************************************************)
ScaleBits == 120

Exact(f) == [s |-> f.s, n |-> Num("shl", f.m, f.e + ScaleBits, 0)]

ExactAdd(x, y) ==
    IF x.s = y.s THEN [s |-> x.s, n |-> Num("add", x.n, y.n, 0)]
    ELSE IF Num("cmp", x.n, y.n, -1) >= 0
    THEN [s |-> x.s, n |-> Num("trim", Num("sub", x.n, y.n, 0), 0, 0)]
    ELSE [s |-> y.s, n |-> Num("trim", Num("sub", y.n, x.n, 0), 0, 0)]

\* deal_size minus the principal of every row, exactly
RECURSIVE C4_Unpaid(_, _)
C4_Unpaid(left, rows) ==
    IF rows = <<>> THEN left
    ELSE C4_Unpaid(ExactAdd(left, Exact(FNeg(Head(rows).Principal))), Tail(rows))

C4_Leak == C4_Unpaid(Exact(mur.deal_size), mur.schedule).n

C6_Finished == chain.pc = "run" /\ chain.todo = {}

C6_Reordered ==
    \E k \in 1..(Len(chain.order) - 1) : chain.order[k] > chain.order[k + 1]

C6_Coded == CodedOrderLimit(chain.base, 1, chain.triggered)

\* C6 as stated: applying the same multipliers in another order gives a
\* different limit after the adjustments.
C6_ReorderingChangesResult ==
    (C6_Finished /\ C6_Reordered) => chain.credit_limit # C6_Coded

\* C6 as the code has it: applying the same multipliers in another order
\* changes the limit after the adjustments by the rounding of the float
\* multiplications at most, less than 0.000001 SAR, and often not at all.
C6_ReorderingWithinRounding ==
    C6_Finished =>
        FLt(FAbs(FSub(chain.credit_limit, C6_Coded)), FDiv(FInt(1), FInt(1000000)))

\* Another order whose result differs from that of the coded order
C6_Witness ==
    /\ C6_Finished
    /\ C6_Reordered
    /\ chain.credit_limit # C6_Coded

(***************************************************************************)
(* Properties of staging, saving and deleting.                             *)
(***************************************************************************)
\* This step is a run of the handler `name`
StepOf(name) == last_op'.tick # last_op.tick /\ last_op'.op = name

\* C2: a save leaves the staging list as it was unless the store returns
\* exactly as many rows as were staged (an error, an exception, no rows or
\* another count leave it), and then it empties the list.
C2_SaveKeepsOrClearsStaging ==
    [][ StepOf("save") =>
          IF /\ last_op'.info.response.kind = "data"
             /\ Len(last_op'.info.response.data) = Len(unsaved_deals)
          THEN unsaved_deals' = <<>>
          ELSE unsaved_deals' = unsaved_deals ]_vars

\* The store kept one of two staged deals and both are still staged
C2_Witness ==
    /\ last_op.op = "save"
    /\ last_op.info.response.kind = "data"
    /\ Len(last_op.info.response.data) = 1
    /\ Len(unsaved_deals) = 2
    /\ unsaved_deals = last_op.info.staged

\* The row r holds the fields of the staged deal d
C3_Holds(r, d) ==
    /\ r.client_name = d.client_name
    /\ r.deal_size = d.deal_size
    /\ r.monthly_rate = d.monthly_rate
    /\ r.admin_fee = d.admin_fee
    /\ r.months = d.months
    /\ r.monthly_profit = d.monthly_profit
    /\ r.total_profit = d.total_profit
    /\ r.admin_fee_amount = d.admin_fee_amount
    /\ r.gross_profit = d.gross_profit

\* C3: when a save clears the staging list, every deal that was staged is
\* in the store under the id of the logged-in user, in a row of its own
\* stored by this save.
C3_ClearedMeansPersisted ==
    [][ (StepOf("save") /\ unsaved_deals # <<>> /\ unsaved_deals' = <<>>) =>
          /\ Cardinality(deals' \ deals) = Len(unsaved_deals)
          /\ \A i \in 1..Len(unsaved_deals) :
                \E r \in deals' \ deals :
                   r.user_id = user.id /\ C3_Holds(r, unsaved_deals[i]) ]_vars

\* Two staged deals were saved and the staging list is empty
C3_Witness ==
    /\ last_op.op = "save"
    /\ last_op.info.success
    /\ Len(last_op.info.staged) = 2
    /\ unsaved_deals = <<>>
    /\ Cardinality({r \in deals : r.user_id = last_op.info.user_id}) = 2

\* C10: a row leaves the store only in a delete, and then it is a row of
\* the logged-in user whose id is one of the ids the delete was issued for.
C10_OnlyOwnerDeleteRemoves ==
    [][ \A r \in deals \ deals' :
          /\ StepOf("delete")
          /\ LoggedIn
          /\ r.user_id = user.id
          /\ \E k \in 1..Len(last_op'.info.ids) :
                last_op'.info.ids[k] = r.id /\ last_op'.info.results[k] ]_vars

\* u1 deleted one of its two rows; the other and the row of u2 remain
C10_Witness ==
    /\ last_op.op = "delete"
    /\ last_op.info.user_id = "u1"
    /\ last_op.info.deleted_count = 1
    /\ Cardinality({r \in deals : r.user_id = "u1"}) = 1
    /\ Cardinality({r \in deals : r.user_id = "u2"}) = 1
    /\ next_id = 4

(***************************************************************************)
(* Further properties of the Murabahah tab.                                *)
(***************************************************************************)
\* C11: for every valid plan the summary shown to the user has a total
\* profit of deal size x monthly rate x months and total earnings of the
\* total profit plus the admin fee amount (100000 at 2.5% over 3 months with
\* a fee of 1.5%: 7500 and 9000).
C11_ReportedTotals ==
    (mur.pc = "shown" /\ FGt(mur.deal_size, F0) /\ mur.financing_period > 0) =>
        /\ mur.total_profit =
              FMul(FMul(mur.deal_size, FDiv(mur.profit_rate, F100)),
                   FInt(mur.financing_period))
        /\ mur.total_earnings = FAdd(mur.total_profit, mur.admin_fee_amount)
        /\ (/\ mur.deal_size = FInt(100000)
            /\ mur.profit_rate = FDiv(FInt(25), FInt(10))
            /\ mur.financing_period = 3
            /\ mur.admin_fee_perc = FDiv(FInt(15), FInt(10)))
              => /\ mur.total_profit = FInt(7500)
                 /\ mur.total_earnings = FInt(9000)

\* The rows of the schedule, against the fee and the base repayment
C16_Rows(admin_fee_amount, base_repayment_per_month) ==
    \A i \in 1..Len(mur.schedule) :
        /\ mur.schedule[i].Month = i
        /\ mur.schedule[i].AdminFeePaid =
              (IF i = 1 THEN admin_fee_amount ELSE F0)
        /\ mur.schedule[i].Installment =
              (IF i = 1 THEN FAdd(base_repayment_per_month, admin_fee_amount)
               ELSE base_repayment_per_month)

C16_Base(total_profit_amount) ==
    FDiv(FAdd(mur.deal_size, total_profit_amount), FInt(mur.financing_period))

\* C16: the schedule has exactly as many rows as the period has months,
\* numbered 1, 2, ... in order; the admin fee is paid in row 1 alone, the
\* installment of row 1 is the base repayment plus the admin fee amount and
\* every later installment is the base repayment,
\* (deal size + total profit) / months.
C16_ScheduleShape ==
    /\ mur.pc = "loop" => Len(mur.schedule) = mur.month - 1
    /\ mur.pc = "shown" => Len(mur.schedule) = mur.financing_period
    /\ mur.pc = "shown" =>
          C16_Rows(FMul(mur.deal_size, FDiv(mur.admin_fee_perc, F100)),
                   C16_Base(FMul(FMul(mur.deal_size, FDiv(mur.profit_rate, F100)),
                                 FInt(mur.financing_period))))

\* A schedule of twelve rows whose first row carries an admin fee
C16_Witness ==
    /\ mur.pc = "shown"
    /\ Len(mur.schedule) = 12
    /\ FGt(mur.schedule[1].AdminFeePaid, F0)
    /\ mur.schedule[12].AdminFeePaid = F0
    /\ FGt(mur.schedule[1].Installment, mur.schedule[2].Installment)

\* C17: the principal paid in every row, the last one included, is not
\* negative, the profit of every month is not negative, and the running
\* remaining principal never drops below 0.
C17_PrincipalNeverNegative ==
    mur.pc \in {"loop", "shown"} =>
        /\ FGe(mur.remaining_principal, F0)
        /\ \A i \in 1..Len(mur.schedule) :
              /\ FGe(mur.schedule[i].Principal, F0)
              /\ FGe(mur.schedule[i].Profit, F0)

(***************************************************************************)
(* Further properties of the credit limit calculator.                      *)
(***************************************************************************)
\* C13: when the base limit was capped at 2,000,000 and the limit after the
\* adjustments is above 2,000,000, no "Ceiling Applied" note is recorded and
\* the final limit is the value a clamp to 2,000,000 would have given.
C13_SuppressedCeilingIsNoOp ==
    (/\ cl.pc = "done"
     /\ cl.cap_applied
     /\ FGt(cl.adjusted_limit, FInt(2000000))) =>
        /\ cl.min_max_applied # "Ceiling Applied"
        /\ cl.final_limit = FInt(2000000)

(***************************************************************************)
(* Further properties of the profitability tab and the session.            *)
(***************************************************************************)
\* The amounts of a deal: what the form held and the fields derived from it
C12_Proj(d) ==
    [ deal_size |-> d.deal_size, monthly_rate |-> d.monthly_rate,
      admin_fee |-> d.admin_fee, months |-> d.months,
      monthly_profit |-> d.monthly_profit, total_profit |-> d.total_profit,
      admin_fee_amount |-> d.admin_fee_amount, gross_profit |-> d.gross_profit ]

C12_Record(deal_size, monthly_rate, admin_fee, months, monthly_profit, admin_fee_amount) ==
    [ deal_size |-> deal_size, monthly_rate |-> monthly_rate,
      admin_fee |-> admin_fee, months |-> months,
      monthly_profit |-> monthly_profit,
      total_profit |-> FMul(monthly_profit, FInt(months)),
      admin_fee_amount |-> admin_fee_amount,
      gross_profit |-> FAdd(FMul(monthly_profit, FInt(months)), admin_fee_amount) ]

\* monthly profit = deal size x rate/100, admin fee amount = deal size x fee/100
C12_Computed(deal_size, monthly_rate, admin_fee, months) ==
    C12_Record(deal_size, monthly_rate, admin_fee, months,
               FMul(deal_size, FDiv(monthly_rate, F100)),
               FMul(deal_size, FDiv(admin_fee, F100)))

\* The amounts computed from what each form of StageForms held
C12_Expected ==
    { C12_Computed(f.deal_size, f.monthly_rate, f.admin_fee, f.months) :
        f \in StageForms }

\* 200000 at 3% with a fee of 1.5% over 4 months: 6000, 24000, 3000, 27000
C12_ExampleFields ==
    [ deal_size |-> FInt(200000), monthly_rate |-> FInt(3),
      admin_fee |-> FDiv(FInt(15), FInt(10)), months |-> 4,
      monthly_profit |-> FInt(6000), total_profit |-> FInt(24000),
      admin_fee_amount |-> FInt(3000), gross_profit |-> FInt(27000) ]

\* The derived fields of d follow from its deal size, rate, fee and months
C12_Derived(d) == C12_Proj(d) \in C12_Expected

C12_Example(d) ==
    (/\ d.deal_size = C12_ExampleFields.deal_size
     /\ d.monthly_rate = C12_ExampleFields.monthly_rate
     /\ d.admin_fee = C12_ExampleFields.admin_fee
     /\ d.months = C12_ExampleFields.months) =>
        C12_Proj(d) = C12_ExampleFields

\* The row sent to the store carries the fields of the staged deal
C12_SameFields(row, d) ==
    /\ row.client_name = d.client_name
    /\ row.deal_size = d.deal_size
    /\ row.monthly_rate = d.monthly_rate
    /\ row.admin_fee = d.admin_fee
    /\ row.months = d.months
    /\ row.monthly_profit = d.monthly_profit
    /\ row.total_profit = d.total_profit
    /\ row.admin_fee_amount = d.admin_fee_amount
    /\ row.gross_profit = d.gross_profit

C12_Submitted(staged, submitted) ==
    /\ Len(submitted) = Len(staged)
    /\ \A i \in 1..Len(staged) :
          /\ C12_SameFields(submitted[i], staged[i])
          /\ C12_Derived(submitted[i])
          /\ C12_Example(submitted[i])

\* C12: every staged deal has monthly profit = deal size x rate/100, total
\* profit = monthly profit x months, admin fee amount = deal size x fee/100
\* and gross profit = total profit + admin fee amount (200000, 3%, 1.5%, 4
\* months: 6000, 24000, 3000, 27000), and a save submits these fields.
C12_StagedFieldsDerivedAndSubmitted ==
    /\ \A i \in 1..Len(unsaved_deals) :
          C12_Derived(unsaved_deals[i]) /\ C12_Example(unsaved_deals[i])
    /\ last_op.op = "save" =>
          C12_Submitted(last_op.info.staged, last_op.info.submitted)

\* Two staged deals were saved and the store holds their derived fields
C12_Witness ==
    /\ last_op.op = "save"
    /\ last_op.info.success
    /\ Len(last_op.info.submitted) = 2
    /\ \E r \in deals :
          /\ r.user_id = last_op.info.user_id
          /\ r.monthly_profit = FInt(6000)
          /\ r.gross_profit = FInt(27000)

\* C14: a delete of k selected rows makes k single deletes, one for each
\* selected id in the order of the selection; a delete that fails does not
\* stop the later ones; the deleted count is the number of single deletes
\* that succeeded and the failure count is k minus that number.
C14_MultiDeleteCountsEach ==
    [][ StepOf("delete") =>
          /\ Len(last_op'.info.results) = Len(last_op'.info.ids)
          /\ last_op'.info.total_to_delete = Len(last_op'.info.ids)
          /\ \A j, k \in 1..Len(last_op'.info.ids) :
                j < k => last_op'.info.ids[j] > last_op'.info.ids[k]
          /\ last_op'.info.deleted_count =
                Cardinality({k \in 1..Len(last_op'.info.ids) :
                                last_op'.info.results[k]})
          /\ last_op'.info.total_to_delete - last_op'.info.deleted_count =
                Cardinality({k \in 1..Len(last_op'.info.ids) :
                                ~last_op'.info.results[k]})
          /\ deals' = deals \ {r \in deals :
                                 /\ r.user_id = user.id
                                 /\ \E k \in 1..Len(last_op'.info.ids) :
                                       /\ last_op'.info.ids[k] = r.id
                                       /\ last_op'.info.results[k]} ]_vars

\* Of two selected rows the first delete failed and the second went through
C14_Witness ==
    /\ last_op.op = "delete"
    /\ last_op.info.total_to_delete = 2
    /\ last_op.info.results = <<FALSE, TRUE>>
    /\ last_op.info.deleted_count = 1
    /\ \E r \in deals : r.id = last_op.info.ids[1]
    /\ \A r \in deals : r.id # last_op.info.ids[2]

\* The staged deals at the positions not in `selected`, in order
RECURSIVE C15_Kept(_, _, _)
C15_Kept(list, selected, i) ==
    IF i > Len(list) THEN <<>>
    ELSE IF i \in selected THEN C15_Kept(list, selected, i + 1)
    ELSE <<list[i]>> \o C15_Kept(list, selected, i + 1)

\* C15: staging with an empty client name or a deal size <= 0 leaves the
\* staging list as it was; with valid input it appends exactly one deal at
\* the end and leaves the deals staged before unchanged and in order.
\* Unstaging removes exactly the selected deals and leaves every other staged
\* deal unchanged and in order.  Neither touches the record store.
C15_StageAndUnstageFrame ==
    [][ /\ StepOf("stage") =>
              /\ deals' = deals /\ next_id' = next_id
              /\ IF \/ last_op'.info.form.client_name = ""
                    \/ FLe(last_op'.info.form.deal_size, F0)
                 THEN unsaved_deals' = unsaved_deals
                 ELSE /\ Len(unsaved_deals') = Len(unsaved_deals) + 1
                      /\ SubSeq(unsaved_deals', 1, Len(unsaved_deals)) = unsaved_deals
                      /\ C12_SameFields(unsaved_deals'[Len(unsaved_deals')],
                                        last_op'.info.form)
        /\ StepOf("unstage") =>
              /\ deals' = deals /\ next_id' = next_id
              /\ unsaved_deals' =
                    C15_Kept(unsaved_deals, last_op'.info.selected, 1) ]_vars

\* Of two staged deals of the same client the first was removed
C15_Witness ==
    /\ last_op.op = "unstage"
    /\ last_op.info.selected = {1}
    /\ Len(unsaved_deals) = 1
    /\ unsaved_deals[1].temp_id[2] \in {t[2] : t \in last_op.info.removed}
    /\ unsaved_deals[1].temp_id \notin last_op.info.removed

\* C18: over any sequence of saves, a partial save and a retry included,
\* each staged deal is stored at most once: the store never holds two rows
\* made from the same staged deal, so the rows that saves created never
\* outnumber the deals that were ever staged.
C18_EachStagedDealStoredOnce ==
    Cardinality(deals \ {EarlierRows[i] : i \in 1..Len(EarlierRows)}) <= clock

\* C19: the store is asked to save, load or delete only while a user and a
\* session are present, and with that user's id; the rows submitted and
\* stored carry that id; the staging list is empty whenever the user
\* changes, so a deal staged under one user is never saved under another; a
\* logout that completes clears the user, the session and the staging list,
\* and a logout that fails leaves the user logged in.
C19_StoreOpsUnderLoggedInUser ==
    [][ /\ (StepOf("save") \/ StepOf("load") \/ StepOf("delete")) =>
              /\ LoggedIn
              /\ last_op'.info.user_id = user.id
              /\ user' = user /\ session' = session
        /\ StepOf("save") =>
              /\ \A i \in 1..Len(last_op'.info.submitted) :
                    last_op'.info.submitted[i].user_id = user.id
              /\ \A r \in deals' \ deals : r.user_id = user.id
        /\ (deals' # deals \/ unsaved_deals' # unsaved_deals) => LoggedIn
        /\ user' # user =>
              /\ unsaved_deals' = <<>>
              /\ user = PyNone => unsaved_deals = <<>>
        /\ StepOf("logout") =>
              /\ LoggedIn
              /\ IF last_op'.info.ok
                 THEN user' = PyNone /\ session' = PyNone /\ unsaved_deals' = <<>>
                 ELSE /\ user' = user /\ session' = session
                      /\ unsaved_deals' = unsaved_deals ]_vars

\* A logout completed after two deals were staged and none was stored: the
\* user, the session and the staging list are gone
C19_Witness ==
    /\ last_op.op = "logout"
    /\ last_op.info.ok
    /\ user = PyNone
    /\ session = PyNone
    /\ unsaved_deals = <<>>
    /\ clock = 2
    /\ next_id = 1
    /\ deals = {}
=============================================================================
